---- MODULE Spec2Model ----
(***************************************************************************)
(* GeoFlowTracker (src/app.js): identity submission, the tracking          *)
(* start/stop lifecycle driven by the location provider's callbacks, and   *)
(* the delivery of samples to the collector with the in-memory local log.  *)
(*                                                                         *)
(* Strings are sequences of one-character strings.  The handlers run to    *)
(* completion on one thread; control yields only at the two awaited        *)
(* fetches (identity lookup, sample delivery), so every action below is    *)
(* either a whole synchronous handler or the continuation of one fetch.    *)
(*                                                                         *)
(* Not modelled here: the DOM elements the handlers write into (they are   *)
(* assumed present); state.lastError and this.trackingInterval are never   *)
(* assigned by the code and stay null.                                     *)
(*                                                                         *)
(* state.debugLogs, which debug() appends to and no handler reads, is      *)
(* followed by SpecDebug alone; the other specifications leave the calls   *)
(* of debug() out of their handlers and hold the log as constructed.       *)
(***************************************************************************)
EXTENDS Naturals, Sequences, FiniteSets

\* ---------------------------------------------------------------- bounds
\* provider success callbacks in one run
MaxSamples == 2
\* successful starts: the session counter and the provider's handles stop
\* growing there
MaxStarts == 2
\* calls of debug() past the capacity of the debug log
MaxDebugCalls == 3

\* ------------------------------------------------------ program constants
\* userId.length < 3 (line 209)
MinIdLen == 3
\* userId.length > 50 (line 209)
MaxIdLen == 50
\* config.maxDebugLogs (line 12)
maxDebugLogs == 50

\* this.watchId = null (line 35); the provider's handles are 1, 2, ...
NullWatch == 0

\* state.userId = null (line 24): null is represented by the empty
\* sequence, which is never an accepted identifier (line 203 rejects it)
NullUser == <<>>

\* localStorage.getItem of an absent key; like "", it is falsy in `|| 0`
NoItem == <<>>

\* ---------------------------------------------------------------- strings
RECURSIVE Rep(_, _)
Rep(c, n) == IF n = 0 THEN <<>> ELSE <<c>> \o Rep(c, n - 1)

\* the character class [a-zA-Z0-9_-] of the regular expression on line 209
IdChars ==
    {"a","b","c","d","e","f","g","h","i","j","k","l","m",
     "n","o","p","q","r","s","t","u","v","w","x","y","z",
     "A","B","C","D","E","F","G","H","I","J","K","L","M",
     "N","O","P","Q","R","S","T","U","V","W","X","Y","Z",
     "0","1","2","3","4","5","6","7","8","9","_","-"}

\* the characters String.prototype.trim() strips (those the inputs can hold)
WhiteSpace == {" ", "\t", "\n", "\r"}

\* /^[a-zA-Z0-9_-]+$/.test(s)
CharsetOK(s) == Len(s) >= 1 /\ \A i \in 1..Len(s) : s[i] \in IdChars

RECURSIVE TrimStart(_)
TrimStart(s) ==
    IF s # <<>> /\ Head(s) \in WhiteSpace THEN TrimStart(Tail(s)) ELSE s

RECURSIVE TrimEnd(_)
TrimEnd(s) ==
    IF s # <<>> /\ s[Len(s)] \in WhiteSpace
    THEN TrimEnd(SubSeq(s, 1, Len(s) - 1)) ELSE s

\* input.value.trim() (line 201)
Trim(s) == TrimEnd(TrimStart(s))

\* ValidFormat without its lower length bound
ValidFormatNoMinLen(userId) == CharsetOK(userId) /\ Len(userId) <= MaxIdLen

\* the negation of the test on line 209
ValidFormat(userId) ==
    CharsetOK(userId) /\ Len(userId) >= MinIdLen /\ Len(userId) <= MaxIdLen

\* decimal digits, for String(n) and parseInt
Digits == <<"0","1","2","3","4","5","6","7","8","9">>

RECURSIVE ToStr(_)
\* the string localStorage.setItem stores for a number (line 327)
ToStr(n) ==
    IF n < 10 THEN <<Digits[n + 1]>>
    ELSE ToStr(n \div 10) \o <<Digits[(n % 10) + 1]>>

DigitVal(c) == CHOOSE d \in 0..9 : Digits[d + 1] = c

RECURSIVE ParseDigits(_, _)
ParseDigits(s, acc) ==
    IF s = <<>> \/ Head(s) \notin {Digits[i] : i \in 1..10} THEN acc
    ELSE ParseDigits(Tail(s), acc * 10 + DigitVal(Head(s)))

\* parseInt(localStorage.getItem(key) || 0) for the values the code stores
\* (line 241): an absent item gives 0, a digit string its value
ParseStoredCount(item) == IF item = NoItem THEN 0 ELSE ParseDigits(item, 0)

\* ----------------------------------------------------------------- inputs
\* what is typed into the input field, before any padding: nothing, two
\* characters, three and four characters of the class, a character outside
\* the class, an inner blank, and one character more than the longest
\* length allowed
Cores ==
    {<<>>, <<"a", "b">>, <<"a", "_", "9">>, <<"a", "!", "c">>,
     <<"a", " ", "c">>, <<"Z", "-", "0", "z">>,
     Rep("Z", MaxIdLen + 1)}

\* what is typed with a blank before and after it
PaddedCores == {<<>>, <<"a", "b">>, <<"a", "_", "9">>}

\* the values of the input field when submitUserId runs
Inputs == Cores \cup {<<" ">> \o c \o <<" ">> : c \in PaddedCores}

\* the session counters and the history lengths found in storage at page
\* load
PriorCounts == {NoItem, <<"1">>}

PriorHistories == {0, 1}

\* the numbers of records a lookup answers with
LookupRecords == {0, 3}

\* the identifiers a submission can get past the format check with
Ids == {Trim(i) : i \in {j \in Inputs : ValidFormat(Trim(j))}}

\* ------------------------------------------------------------------ state
VARIABLES
    isTracking,     \* state.isTracking
    isInitialized,  \* state.isInitialized
    userId,         \* state.userId (NullUser for null)
    userIdSet,      \* state.userIdSet
    sessionCount,   \* state.sessionCount
    locations,      \* state.locations, the local log: a sequence of samples
    lastLocation,   \* state.lastLocation (0 for null)
    watchId,        \* this.watchId (NullWatch for null)
    status,         \* the status line written by setStatus
    storedUserId,   \* localStorage current_user_id
    sessionStore,   \* localStorage session_count_{id}, per identifier
    localHistory,   \* entries of localStorage tracking_data_{id}, per id
    geoAvailable,   \* navigator.geolocation is present
    live,           \* provider: the handles subscribed and not cleared
    nextHandle,     \* provider: the handle the next watchPosition returns
    clearLog,       \* provider: the handles clearWatch was called with
    produced,       \* provider: success callbacks delivered so far
    lookups,        \* the identifiers whose lookup is in flight
    deliveries,     \* POSTs in flight: [sample, user_id]
    debugLogs,      \* state.debugLogs: [message, type, timestamp]
    debugClock      \* the time new Date() gives, counted in calls of debug

vars ==
    <<isTracking, isInitialized, userId, userIdSet, sessionCount, locations,
      lastLocation, watchId, status, storedUserId, sessionStore,
      localHistory, geoAvailable, live, nextHandle, clearLog, produced,
      lookups, deliveries, debugLogs, debugClock>>

debugVars == <<debugLogs, debugClock>>

\* what an accepted identity sets (lines 239-251, 266-271)
identityVars == <<userId, userIdSet, isInitialized, sessionCount, storedUserId>>

\* setStatus(message, type) (lines 536-546); the message is kept by its
\* kind, the identifier and the record count it is formatted with
Status(kind, type, id, n) ==
    [message |-> kind, type |-> type, userId |-> id, count |-> n]

\* the constructor and init() up to its first await (lines 20-58), apart
\* from what the page is loaded with
Constructed ==
    /\ isTracking = FALSE
    /\ isInitialized = FALSE
    /\ userId = NullUser
    /\ userIdSet = FALSE
    /\ sessionCount = 0
    /\ locations = <<>>
    /\ lastLocation = 0
    /\ watchId = NullWatch
    /\ status = IF geoAvailable
                THEN Status("none", "info", NullUser, 0)
                ELSE Status("GeoUnsupported", "error", NullUser, 0)
    /\ live = {}
    /\ nextHandle = 1
    /\ clearLog = <<>>
    /\ produced = 0
    /\ lookups = {}
    /\ deliveries = {}

\* debugLogs: [] (line 27), held so where the calls of debug() are left
\* out
NoDebugLogs == debugLogs = <<>> /\ debugClock = 0

\* a page loaded with empty storage, with or without a location provider
Init ==
    /\ NoDebugLogs
    /\ geoAvailable \in BOOLEAN
    /\ storedUserId = NoItem
    /\ sessionStore = [id \in Ids |-> NoItem]
    /\ localHistory = [id \in Ids |-> 0]
    /\ Constructed

\* a page loaded with the storage of earlier page loads: a session counter
\* and a history under one identifier, which is also the stored identity
InitStored ==
    /\ NoDebugLogs
    /\ geoAvailable \in BOOLEAN
    /\ \E p \in Ids, k \in PriorCounts, h \in PriorHistories :
           /\ storedUserId = p
           /\ sessionStore = [id \in Ids |-> IF id = p THEN k ELSE NoItem]
           /\ localHistory = [id \in Ids |-> IF id = p THEN h ELSE 0]
    /\ Constructed

\* -------------------------------------------------------------- identity
\* showValidationError(message) (lines 280-288)
showValidationError(kind, id, n) == status' = Status(kind, "error", id, n)

\* submitUserId up to its await (lines 199-225): the value of the input
\* field is trimmed and checked, then the lookup is issued.  The model
\* keeps one lookup in flight per identifier: an identifier is submitted
\* again once its lookup has been answered.
SubmitUserId(input) ==
    LET candidate == Trim(input) IN
    /\ UNCHANGED <<isTracking, isInitialized, userId, userIdSet,
                   sessionCount, locations, lastLocation, watchId,
                   storedUserId, sessionStore, localHistory, geoAvailable,
                   live, nextHandle, clearLog, produced, deliveries>>
    /\ IF candidate = <<>>
       THEN /\ showValidationError("EnterUserId", NullUser, 0)
            /\ UNCHANGED lookups
       ELSE IF ~ValidFormat(candidate)
       THEN /\ showValidationError("InvalidFormat", NullUser, 0)
            /\ UNCHANGED lookups
       ELSE /\ candidate \notin lookups
            /\ status' = Status("Checking", "info", NullUser, 0)
            /\ lookups' = lookups \cup {candidate}

\* what the lookup can come back with: fetch rejects; a response that is
\* not ok; an ok response whose body does not parse; an ok response whose
\* body is an array of n records (n = 0 also stands for a body that is no
\* array)
Responses ==
    {[kind |-> k, n |-> 0] : k \in {"reject", "notOk", "malformed"}}
        \cup {[kind |-> "ok", n |-> n] : n \in LookupRecords}

\* the acceptance of lines 238-251 without the reload of line 241
AcceptOnlineKeepCount(id) ==
    /\ userId' = id
    /\ userIdSet' = TRUE
    /\ UNCHANGED sessionCount
    /\ storedUserId' = id
    /\ status' = Status("Ready", "success", NullUser, 0)
    /\ isInitialized' = TRUE

\* lines 238-251: the identifier is available
AcceptOnline(id) ==
    /\ userId' = id
    /\ userIdSet' = TRUE
    /\ sessionCount' = ParseStoredCount(sessionStore[id])
    /\ storedUserId' = id
    /\ status' = Status("Ready", "success", NullUser, 0)
    /\ isInitialized' = TRUE

\* the catch block without the setItem of line 268
AcceptOfflineNoPersist(id) ==
    IF localHistory[id] > 0
    THEN /\ showValidationError("UsedLocally", id, 0)
         /\ UNCHANGED identityVars
    ELSE /\ userId' = id
         /\ userIdSet' = TRUE
         /\ UNCHANGED storedUserId
         /\ isInitialized' = TRUE
         /\ status' = Status("Offline", "warning", NullUser, 0)
         /\ UNCHANGED sessionCount

\* lines 253-274: the catch block, the check against the local history
AcceptOffline(id) ==
    IF localHistory[id] > 0
    THEN /\ showValidationError("UsedLocally", id, 0)
         /\ UNCHANGED identityVars
    ELSE /\ userId' = id
         /\ userIdSet' = TRUE
         /\ storedUserId' = id
         /\ isInitialized' = TRUE
         /\ status' = Status("Offline", "warning", NullUser, 0)
         /\ UNCHANGED sessionCount

\* submitUserId that does not return at line 234: an identifier with
\* records is accepted like an available one
LookupDoneNoReturn(id, r) ==
    /\ id \in lookups
    /\ lookups' = lookups \ {id}
    /\ UNCHANGED <<isTracking, locations, lastLocation, watchId,
                   sessionStore, localHistory, geoAvailable, live,
                   nextHandle, clearLog, produced, deliveries>>
    /\ CASE r.kind \in {"reject", "malformed"} -> AcceptOffline(id)
         [] OTHER -> AcceptOnline(id)

\* submitUserId from its await on (lines 227-274)
LookupDone(id, r) ==
    /\ id \in lookups
    /\ lookups' = lookups \ {id}
    /\ UNCHANGED <<isTracking, locations, lastLocation, watchId,
                   sessionStore, localHistory, geoAvailable, live,
                   nextHandle, clearLog, produced, deliveries>>
    /\ CASE r.kind \in {"reject", "malformed"} -> AcceptOffline(id)
         [] r.kind = "ok" /\ r.n > 0 ->
                /\ showValidationError("AlreadyExists", id, r.n)
                /\ UNCHANGED identityVars
         [] OTHER -> AcceptOnline(id)

\* -------------------------------------------------------------- tracking
\* stopTracking that forgets the handle without calling clearWatch
stopTrackingNoClear(st) ==
    IF ~isTracking
    THEN /\ status' = st
         /\ UNCHANGED <<isTracking, watchId, live, clearLog>>
    ELSE /\ watchId' = NullWatch
         /\ UNCHANGED <<live, clearLog>>
         /\ isTracking' = FALSE
         /\ status' = Status("Stopped", "info", NullUser, 0)

\* stopTracking without its early return of lines 335-338
stopTrackingNoGuard(st) ==
    /\ IF watchId # NullWatch
       THEN /\ live' = live \ {watchId}
            /\ clearLog' = Append(clearLog, watchId)
            /\ watchId' = NullWatch
       ELSE UNCHANGED <<watchId, live, clearLog>>
    /\ isTracking' = FALSE
    /\ status' = Status("Stopped", "info", NullUser, 0)

\* stopTracking without the reset of line 343: the cleared handle is kept
stopTrackingKeepHandle(st) ==
    IF ~isTracking
    THEN /\ status' = st
         /\ UNCHANGED <<isTracking, watchId, live, clearLog>>
    ELSE /\ IF watchId # NullWatch
            THEN /\ live' = live \ {watchId}
                 /\ clearLog' = Append(clearLog, watchId)
                 /\ UNCHANGED watchId
            ELSE UNCHANGED <<watchId, live, clearLog>>
         /\ isTracking' = FALSE
         /\ status' = Status("Stopped", "info", NullUser, 0)

\* stopTracking() (lines 334-360); st is the status line it is entered with
stopTracking(st) ==
    IF ~isTracking
    THEN /\ status' = st
         /\ UNCHANGED <<isTracking, watchId, live, clearLog>>
    ELSE /\ IF watchId # NullWatch
            THEN /\ live' = live \ {watchId}
                 /\ clearLog' = Append(clearLog, watchId)
                 /\ watchId' = NullWatch
            ELSE UNCHANGED <<watchId, live, clearLog>>
         /\ isTracking' = FALSE
         /\ status' = Status("Stopped", "info", NullUser, 0)

\* startTracking without its early return of lines 301-304
StartTrackingNoActiveGuard ==
    /\ UNCHANGED <<isInitialized, userId, userIdSet, locations, lastLocation,
                   storedUserId, localHistory, geoAvailable, clearLog,
                   produced, lookups, deliveries>>
    /\ IF ~userIdSet
       THEN /\ status' = Status("SetUserIdFirst", "error", NullUser, 0)
            /\ UNCHANGED <<isTracking, sessionCount, watchId, sessionStore,
                           live, nextHandle>>
       ELSE /\ sessionCount < MaxStarts
            /\ nextHandle <= MaxStarts
            /\ isTracking' = TRUE
            /\ sessionCount' = sessionCount + 1
            /\ IF geoAvailable
               THEN /\ watchId' = nextHandle
                    /\ live' = live \cup {nextHandle}
                    /\ nextHandle' = nextHandle + 1
               ELSE UNCHANGED <<watchId, live, nextHandle>>
            /\ status' = Status("TrackingActive", "success", NullUser, 0)
            /\ sessionStore' =
                   [sessionStore EXCEPT ![userId] = ToStr(sessionCount')]

\* startTracking without its early return of lines 294-299
StartTrackingNoIdentityGuard ==
    /\ UNCHANGED <<isInitialized, userId, userIdSet, locations, lastLocation,
                   storedUserId, localHistory, geoAvailable, clearLog,
                   produced, lookups, deliveries>>
    /\ IF isTracking
       THEN UNCHANGED <<status, isTracking, sessionCount, watchId,
                        sessionStore, live, nextHandle>>
       ELSE /\ sessionCount < MaxStarts
            /\ nextHandle <= MaxStarts
            /\ isTracking' = TRUE
            /\ sessionCount' = sessionCount + 1
            /\ IF geoAvailable
               THEN /\ watchId' = nextHandle
                    /\ live' = live \cup {nextHandle}
                    /\ nextHandle' = nextHandle + 1
               ELSE UNCHANGED <<watchId, live, nextHandle>>
            /\ status' = Status("TrackingActive", "success", NullUser, 0)
            /\ sessionStore' =
                   IF userId \in Ids
                   THEN [sessionStore EXCEPT ![userId] = ToStr(sessionCount')]
                   ELSE sessionStore

\* startTracking() (lines 293-329)
StartTracking ==
    /\ UNCHANGED <<isInitialized, userId, userIdSet, locations, lastLocation,
                   storedUserId, localHistory, geoAvailable, clearLog,
                   produced, lookups, deliveries>>
    /\ IF ~userIdSet
       THEN /\ status' = Status("SetUserIdFirst", "error", NullUser, 0)
            /\ UNCHANGED <<isTracking, sessionCount, watchId, sessionStore,
                           live, nextHandle>>
       ELSE IF isTracking
       THEN UNCHANGED <<status, isTracking, sessionCount, watchId,
                        sessionStore, live, nextHandle>>
       ELSE /\ sessionCount < MaxStarts
            /\ nextHandle <= MaxStarts
            /\ isTracking' = TRUE
            /\ sessionCount' = sessionCount + 1
            /\ IF geoAvailable
               THEN /\ watchId' = nextHandle
                    /\ live' = live \cup {nextHandle}
                    /\ nextHandle' = nextHandle + 1
               ELSE UNCHANGED <<watchId, live, nextHandle>>
            /\ status' = Status("TrackingActive", "success", NullUser, 0)
            /\ sessionStore' =
                   [sessionStore EXCEPT ![userId] = ToStr(sessionCount')]

\* a stop button that also abandons the POSTs in flight
StopTrackingAbortDeliveries ==
    /\ stopTracking(status)
    /\ deliveries' = IF isTracking THEN {} ELSE deliveries
    /\ UNCHANGED <<isInitialized, userId, userIdSet, sessionCount, locations,
                   lastLocation, storedUserId, sessionStore, localHistory,
                   geoAvailable, nextHandle, produced, lookups>>

\* the stop button (line 111)
StopTracking ==
    /\ stopTracking(status)
    /\ UNCHANGED <<isInitialized, userId, userIdSet, sessionCount, locations,
                   lastLocation, storedUserId, sessionStore, localHistory,
                   geoAvailable, nextHandle, produced, lookups, deliveries>>

\* the success callback whose payload reads this.userId, which is never
\* assigned, for this.state.userId
ProviderSuccessNoUser ==
    /\ watchId \in live
    /\ produced < MaxSamples
    /\ produced' = produced + 1
    /\ lastLocation' = produced'
    /\ deliveries' =
           deliveries \cup {[sample |-> produced', user_id |-> NullUser]}
    /\ UNCHANGED <<isTracking, isInitialized, userId, userIdSet, sessionCount,
                   locations, watchId, status, storedUserId, sessionStore,
                   localHistory, geoAvailable, live, nextHandle, clearLog,
                   lookups>>

\* the subscription's success callback: onLocationSuccess (lines 383-408)
\* and sendToBackend up to its await (lines 434-454).  The sample is named
\* by its place in the order of the provider's callbacks.
ProviderSuccess ==
    /\ watchId \in live
    /\ produced < MaxSamples
    /\ produced' = produced + 1
    /\ lastLocation' = produced'
    /\ deliveries' = deliveries \cup {[sample |-> produced', user_id |-> userId]}
    /\ UNCHANGED <<isTracking, isInitialized, userId, userIdSet, sessionCount,
                   locations, watchId, status, storedUserId, sessionStore,
                   localHistory, geoAvailable, live, nextHandle, clearLog,
                   lookups>>

\* the provider's error codes: 1 PermissionDenied, 2 PositionUnavailable,
\* 3 Timeout, and one code outside the table of line 414
ErrorCodes == {1, 2, 3, 4}

ErrorMessage(code) ==
    CASE code = 1 -> "PermissionDenied"
      [] code = 2 -> "PositionUnavailable"
      [] code = 3 -> "Timeout"
      [] OTHER -> "UnknownError"

\* onLocationError that stops the tracking on a timeout as well
ProviderErrorStopOnTimeout(code) ==
    /\ watchId \in live
    /\ LET st == Status(ErrorMessage(code), "error", NullUser, 0) IN
       IF code \in {1, 3}
       THEN stopTracking(st)
       ELSE /\ status' = st
            /\ UNCHANGED <<isTracking, watchId, live, clearLog>>
    /\ UNCHANGED <<isInitialized, userId, userIdSet, sessionCount, locations,
                   lastLocation, storedUserId, sessionStore, localHistory,
                   geoAvailable, nextHandle, produced, lookups, deliveries>>

\* onLocationError that on PermissionDenied resets the tracking state
\* itself, without the clearWatch of stopTracking
ProviderErrorNoClear(code) ==
    /\ watchId \in live
    /\ IF code = 1
       THEN /\ isTracking' = FALSE
            /\ watchId' = NullWatch
            /\ status' = Status("Stopped", "info", NullUser, 0)
            /\ UNCHANGED <<live, clearLog>>
       ELSE /\ status' = Status(ErrorMessage(code), "error", NullUser, 0)
            /\ UNCHANGED <<isTracking, watchId, live, clearLog>>
    /\ UNCHANGED <<isInitialized, userId, userIdSet, sessionCount, locations,
                   lastLocation, storedUserId, sessionStore, localHistory,
                   geoAvailable, nextHandle, produced, lookups, deliveries>>

\* the subscription's error callback: onLocationError (lines 413-429)
ProviderError(code) ==
    /\ watchId \in live
    /\ LET st == Status(ErrorMessage(code), "error", NullUser, 0) IN
       IF code = 1
       THEN stopTracking(st)
       ELSE /\ status' = st
            /\ UNCHANGED <<isTracking, watchId, live, clearLog>>
    /\ UNCHANGED <<isInitialized, userId, userIdSet, sessionCount, locations,
                   lastLocation, storedUserId, sessionStore, localHistory,
                   geoAvailable, nextHandle, produced, lookups, deliveries>>

\* -------------------------------------------------------------- delivery
\* what the POST can come back with: fetch rejects; a response that is not
\* ok; an ok response whose body does not parse; an ok response whose body
\* parses to null (reading data.id throws); an ok response with a record
Outcomes == {"reject", "notOk", "malformed", "null", "ok"}

\* the samples of log that the provider delivered before sample s
Before(log, s) == SelectSeq(log, LAMBDA x : x < s)

\* addLocationLog that files the sample at its place in the order of the
\* provider's callbacks
addLocationLogInArrivalOrder(data) ==
    locations' =
        Before(locations, data) \o <<data>>
            \o SelectSeq(locations, LAMBDA x : x > data)

\* addLocationLog(data) (lines 491-493)
addLocationLog(data) == locations' = Append(locations, data)

\* sendToBackend whose catch block does not log the sample
DeliveryDoneDropOnFailure(d, outcome) ==
    /\ d \in deliveries
    /\ deliveries' = deliveries \ {d}
    /\ IF outcome = "ok"
       THEN addLocationLog(d.sample)
       ELSE UNCHANGED locations
    /\ UNCHANGED <<isTracking, isInitialized, userId, userIdSet, sessionCount,
                   lastLocation, watchId, status, storedUserId, sessionStore,
                   localHistory, geoAvailable, live, nextHandle, clearLog,
                   produced, lookups>>

\* sendToBackend whose catch block stops the tracking
DeliveryDoneStopOnFailure(d, outcome) ==
    /\ d \in deliveries
    /\ deliveries' = deliveries \ {d}
    /\ addLocationLog(d.sample)
    /\ IF outcome = "ok"
       THEN UNCHANGED <<isTracking, watchId, status, live, clearLog>>
       ELSE stopTracking(status)
    /\ UNCHANGED <<isInitialized, userId, userIdSet, sessionCount,
                   lastLocation, storedUserId, sessionStore,
                   localHistory, geoAvailable, nextHandle,
                   produced, lookups>>

\* sendToBackend from its await on (lines 456-473): both the try block and
\* the catch block end in addLocationLog
DeliveryDone(d, outcome) ==
    /\ d \in deliveries
    /\ deliveries' = deliveries \ {d}
    /\ IF outcome = "ok"
       THEN addLocationLog(d.sample)
       ELSE addLocationLog(d.sample)
    /\ UNCHANGED <<isTracking, isInitialized, userId, userIdSet, sessionCount,
                   lastLocation, watchId, status, storedUserId, sessionStore,
                   localHistory, geoAvailable, live, nextHandle, clearLog,
                   produced, lookups>>

\* ---------------------------------------------------------- specification
Next ==
    \/ /\ \E input \in Inputs : SubmitUserId(input)
       /\ UNCHANGED debugVars
    \/ /\ \E id \in Ids, r \in Responses : LookupDone(id, r)
       /\ UNCHANGED debugVars
    \/ /\ StartTracking
       /\ UNCHANGED debugVars
    \/ /\ StopTracking
       /\ UNCHANGED debugVars
    \/ /\ ProviderSuccess
       /\ UNCHANGED debugVars
    \/ /\ \E code \in ErrorCodes : ProviderError(code)
       /\ UNCHANGED debugVars
    \/ /\ \E d \in deliveries, outcome \in Outcomes : DeliveryDone(d, outcome)
       /\ UNCHANGED debugVars

Spec == Init /\ [][Next]_vars

\* the page given well-formed identifiers only: the refusals of lines
\* 203-212 write nothing but the status line
NextLive ==
    \/ /\ \E input \in Ids : SubmitUserId(input)
       /\ UNCHANGED debugVars
    \/ /\ \E id \in Ids, r \in Responses : LookupDone(id, r)
       /\ UNCHANGED debugVars
    \/ /\ StartTracking
       /\ UNCHANGED debugVars
    \/ /\ StopTracking
       /\ UNCHANGED debugVars
    \/ /\ ProviderSuccess
       /\ UNCHANGED debugVars
    \/ /\ \E code \in ErrorCodes : ProviderError(code)
       /\ UNCHANGED debugVars
    \/ /\ \E d \in deliveries, outcome \in Outcomes : DeliveryDone(d, outcome)
       /\ UNCHANGED debugVars

\* that page under the assumption that every POST is answered: the fetch
\* of line 446 settles, so the continuation of sendToBackend after its
\* await (lines 456-473) runs for each sample in flight
SpecLive ==
    /\ Init
    /\ [][NextLive]_vars
    /\ \A s \in 1..MaxSamples :
           WF_vars(/\ \E d \in deliveries, outcome \in Outcomes :
                          d.sample = s /\ DeliveryDone(d, outcome)
                   /\ UNCHANGED debugVars)

\* the identity and the session counter over the storage of earlier page
\* loads, while the provider stays silent
NextStored ==
    \/ /\ \E input \in Inputs : SubmitUserId(input)
       /\ UNCHANGED debugVars
    \/ /\ \E id \in Ids, r \in Responses : LookupDone(id, r)
       /\ UNCHANGED debugVars
    \/ /\ StartTracking
       /\ UNCHANGED debugVars
    \/ /\ StopTracking
       /\ UNCHANGED debugVars

SpecStored == InitStored /\ [][NextStored]_vars

\* ------------------------------------------------------------ debug log
\* debug that drops the entry it has just pushed: pop() for shift()
debugDropNewest(logs, message, type, timestamp) ==
    LET pushed ==
            Append(logs, [message |-> message, type |-> type,
                          timestamp |-> timestamp])
    IN  IF Len(pushed) > maxDebugLogs
        THEN SubSeq(pushed, 1, Len(pushed) - 1)
        ELSE pushed

\* debug(message, type) (lines 551-558): the log after the call made on
\* logs at the time timestamp
debug(logs, message, type, timestamp) ==
    LET pushed ==
            Append(logs, [message |-> message, type |-> type,
                          timestamp |-> timestamp])
    IN  IF Len(pushed) > maxDebugLogs THEN Tail(pushed) ELSE pushed

\* the log of a page without a location provider after init() (lines 47,
\* 56) and k - 2 presses of the stop button (line 336)
LogAfterStops(k) ==
    [i \in 1..k |->
        [message |-> CASE i = 1 -> "AppStarted"
                       [] i = 2 -> "GeoUnavailable"
                       [] OTHER -> "TrackingNotActive",
         type |-> CASE i = 1 -> "system"
                    [] i = 2 -> "error"
                    [] OTHER -> "warning",
         timestamp |-> i]]

\* such a page with its log within MaxDebugCalls entries of its capacity
InitDebug ==
    /\ geoAvailable = FALSE
    /\ storedUserId = NoItem
    /\ sessionStore = [id \in Ids |-> NoItem]
    /\ localHistory = [id \in Ids |-> 0]
    /\ Constructed
    /\ \E k \in (maxDebugLogs - MaxDebugCalls)..maxDebugLogs :
           /\ debugLogs = LogAfterStops(k)
           /\ debugClock = k

\* the stop button while idle, with its call of debug (line 336)
LoggedStopTracking ==
    /\ ~isTracking
    /\ debugClock < maxDebugLogs + MaxDebugCalls
    /\ StopTracking
    /\ debugClock' = debugClock + 1
    /\ debugLogs' =
           debug(debugLogs, "TrackingNotActive", "warning", debugClock')

\* the start button without an identity, with its calls of debug (line
\* 295, and line 135 in showUserIdModal)
LoggedStartTracking ==
    /\ ~userIdSet
    /\ debugClock < maxDebugLogs + MaxDebugCalls
    /\ StartTracking
    /\ debugClock' = debugClock + 2
    /\ debugLogs' =
           debug(debug(debugLogs, "UserIdNotSet", "error", debugClock + 1),
                 "ModalShown", "info", debugClock + 2)

\* a submission refused for its format, with the call of debug in
\* showValidationError (line 287)
LoggedSubmitUserId(input) ==
    /\ ~ValidFormat(Trim(input))
    /\ debugClock < maxDebugLogs + MaxDebugCalls
    /\ SubmitUserId(input)
    /\ debugClock' = debugClock + 1
    /\ debugLogs' = debug(debugLogs, status'.message, "error", debugClock')

NextDebug ==
    \/ LoggedStopTracking
    \/ LoggedStartTracking
    \/ \E input \in Inputs : LoggedSubmitUserId(input)

\* the debug log of a page that is given no identity
SpecDebug == InitDebug /\ [][NextDebug]_vars

\* ----------------------------------------------------------------- claims
\* the samples whose delivery is in flight
InFlight == {d.sample : d \in deliveries}

\* how often sample s is in the local log
Occurrences(s) == Cardinality({i \in 1..Len(locations) : locations[i] = s})

\* C1: at most one provider subscription is live at any time: no
\* subscription is registered while an earlier one has not been cleared.
C1_AtMostOneSubscription == Cardinality(live) <= 1

\* C1 witness: a second subscription is live after the first was cleared.
C1_Witness == live # {} /\ clearLog # <<>> /\ nextHandle > MaxStarts

\* C2: a sample whose delivery attempt has completed is in the local log
\* exactly once, and no sample is ever in it more than once (a sample still
\* in flight is not in it yet).
C2_LoggedExactlyOnce ==
    \A s \in 1..produced :
        /\ Occurrences(s) <= 1
        /\ s \notin InFlight => Occurrences(s) = 1

\* C2 witness: every sample of the run has completed and is logged, the
\* tracking having stopped meanwhile.
C2_Witness ==
    produced = MaxSamples /\ deliveries = {} /\ Len(locations) = MaxSamples
        /\ ~isTracking

\* C3 as claimed: the local log holds the samples in the order of their
\* provider callbacks, whatever order the deliveries completed in.
C3_ArrivalOrder ==
    \A i, j \in 1..Len(locations) : i < j => locations[i] < locations[j]

\* C3 as amended: the local log holds the samples in the order their
\* deliveries completed: a completing delivery appends its own sample at
\* the end of the log, and nothing else changes the log.
C3_CompletionOrder ==
    [][\/ \E d \in deliveries :
            /\ deliveries' = deliveries \ {d}
            /\ locations' = Append(locations, d.sample)
       \/ /\ locations' = locations
          /\ deliveries \subseteq deliveries']_vars

\* C3 witness: two deliveries completed against the order of their
\* callbacks, and the log holds the later sample first.
C3_Witness ==
    \E i, j \in 1..Len(locations) : i < j /\ locations[i] > locations[j]

\* C4 as claimed, for an accepted identity that is still the current one:
\* its next submission ends in AlreadyTaken and sets nothing.
C4_ResubmissionAlreadyTaken ==
    [][\A id \in Ids, r \in Responses :
          (userIdSet /\ userId = id /\ LookupDone(id, r)) =>
              /\ status'.message \in {"AlreadyExists", "UsedLocally"}
              /\ status'.type = "error"
              /\ UNCHANGED identityVars]_vars

\* the rule of the claim on the candidate as it is submitted: the charset
\* ^[A-Za-z0-9_-]+$ and a length in [3, 50]
MeetsRule(s) ==
    /\ Len(s) >= 1
    /\ \A i \in 1..Len(s) : s[i] \in IdChars
    /\ Len(s) >= 3
    /\ Len(s) <= 50

\* the inputs that fail the rule as they are typed, and those that fail it
\* with the blanks around them removed
RuleBreakers == {input \in Inputs : ~MeetsRule(input)}

TrimmedRuleBreakers == {input \in Inputs : ~MeetsRule(Trim(input))}

\* C5 as claimed: a candidate that fails the charset rule or the length
\* rule is refused with a validation error, no lookup is issued and the
\* identity is left as it was.
C5_InvalidCandidateRefused ==
    [][\A input \in RuleBreakers :
          SubmitUserId(input) =>
              /\ status'.message \in {"InvalidFormat", "EnterUserId"}
              /\ status'.type = "error"
              /\ lookups' = lookups
              /\ UNCHANGED identityVars]_vars

\* C5 as amended: the rule applies to the candidate with the blanks around
\* it removed.  When that fails the rule the submission is refused with the
\* invalid-format error (with the enter-a-User-ID error when nothing is
\* left), no lookup is issued and the identity is left as it was.
C5_InvalidTrimmedRefused ==
    [][\A input \in TrimmedRuleBreakers :
          SubmitUserId(input) =>
              /\ status'.message =
                     IF Trim(input) = <<>> THEN "EnterUserId"
                     ELSE "InvalidFormat"
              /\ status'.type = "error"
              /\ lookups' = lookups
              /\ UNCHANGED identityVars]_vars

\* C5 witness: an invalid candidate was refused while an identity was set
\* and tracking was active.
C5_Witness ==
    status.message = "InvalidFormat" /\ userIdSet /\ isTracking
        /\ lookups = {}

\* C6 as claimed: a lookup that is rejected or answered with a status that
\* is not ok falls back to the local history: with an entry the submission
\* ends in AlreadyTaken and sets nothing, without one the identity is
\* accepted with the warning status of the offline mode.
C6_FallbackOnUnreachable ==
    [][\A id \in Ids, r \in Responses :
          (r.kind \in {"reject", "notOk"} /\ LookupDone(id, r)) =>
              IF localHistory[id] > 0
              THEN /\ status'.message = "UsedLocally"
                   /\ status'.type = "error"
                   /\ UNCHANGED identityVars
              ELSE /\ userId' = id
                   /\ userIdSet'
                   /\ status'.message = "Offline"
                   /\ status'.type = "warning"]_vars

\* C7: startTracking() while tracking is active changes neither the session
\* counter, in memory or in storage, nor the subscription, nor isTracking
\* and watchId.
C7_StartWhileActiveNoOp ==
    [][(isTracking /\ StartTracking) =>
          UNCHANGED <<sessionCount, sessionStore, isTracking, watchId,
                      live, nextHandle>>]_vars

\* C7 witness: tracking is active under a live subscription after the
\* counter was incremented, the state a repeated start is called in.
C7_Witness ==
    isTracking /\ watchId \in live /\ sessionCount = MaxStarts
        /\ sessionStore[userId] = ToStr(MaxStarts)

\* C8 as claimed: the counter stored for an identifier grows by one in a
\* successful start made while it is the current identity, and is changed
\* by nothing else.
C8_StoredCountPerStart ==
    [][\A id \in Ids :
          ParseStoredCount(sessionStore'[id]) =
              ParseStoredCount(sessionStore[id])
                  + (IF ~isTracking /\ isTracking' /\ userId = id
                     THEN 1 ELSE 0)]_vars

\* C9 as claimed: once an identity is set, no step changes state.userId or
\* the stored current_user_id.
C9_IdentityImmutable ==
    [][userIdSet => (userId' = userId /\ storedUserId' = storedUserId)]_vars

\* C10: stopTracking() while tracking is not active is a no-op: no
\* clearWatch call, and isTracking, watchId, sessionCount, the local log and
\* the status line stay as they were.
C10_StopWhileIdleNoOp ==
    [][(~isTracking /\ StopTracking) =>
          UNCHANGED <<isTracking, watchId, sessionCount, locations, live,
                      clearLog, status>>]_vars

\* C10 witness: tracking was stopped, the state a second stop is called in.
C10_Witness ==
    ~isTracking /\ clearLog # <<>> /\ watchId = NullWatch
        /\ status.message = "Stopped"

\* C11: a provider error received while the tracking is active changes the
\* tracking state only when its code is 1 (PermissionDenied): the tracking
\* becomes idle and the handle is cleared at the provider.  With code 2, 3
\* or an unknown code the tracking stays active on the same live handle.
C11_OnlyPermissionDeniedStops ==
    [][\A code \in ErrorCodes :
          isTracking /\ ProviderError(code) =>
              IF code = 1
              THEN /\ ~isTracking'
                   /\ watchId' = NullWatch
                   /\ live' = live \ {watchId}
                   /\ clearLog' = Append(clearLog, watchId)
              ELSE /\ isTracking'
                   /\ watchId' = watchId
                   /\ watchId' \in live'
                   /\ clearLog' = clearLog]_vars

\* C11 witness: a timeout has been reported and the tracking is still
\* active on its live handle.
C11_Witness ==
    status.message = "Timeout" /\ isTracking /\ watchId \in live

\* C12: startTracking called while no identity has been accepted (a lookup
\* may be pending) does nothing to the tracking: no subscription is
\* registered, isTracking stays false, and the session counter is neither
\* incremented nor stored.
C12_StartWithoutIdentityNoOp ==
    [][~userIdSet /\ StartTracking =>
          /\ ~isTracking'
          /\ UNCHANGED <<isTracking, watchId, live, nextHandle,
                         sessionCount, sessionStore>>]_vars

\* C12 witness: a start was refused while a lookup was pending, and the
\* tracking is idle with nothing registered or counted.
C12_Witness ==
    /\ status.message = "SetUserIdFirst"
    /\ lookups # {}
    /\ ~userIdSet /\ ~isTracking /\ live = {} /\ sessionCount = 0

\* C13: when the remote lookup succeeds with a non-empty list of records,
\* the submission fails with the already-taken error carrying the number of
\* records, and userId, userIdSet, isInitialized, sessionCount and the
\* stored current_user_id are left unchanged.
C13_TakenRefused ==
    [][\A id \in Ids, r \in Responses :
          r.kind = "ok" /\ r.n > 0 /\ LookupDone(id, r) =>
              /\ status'.message = "AlreadyExists"
              /\ status'.type = "error"
              /\ status'.userId = id
              /\ status'.count = r.n
              /\ userId' = userId
              /\ userIdSet' = userIdSet
              /\ isInitialized' = isInitialized
              /\ sessionCount' = sessionCount
              /\ storedUserId' = storedUserId]_vars

\* C13 witness: an identifier was refused as taken, with its record count,
\* on a page that has no identity yet while another identity is stored.
C13_Witness ==
    /\ status.message = "AlreadyExists"
    /\ status.count \in LookupRecords \ {0}
    /\ ~userIdSet /\ userId = NullUser /\ ~isInitialized
    /\ storedUserId # NoItem /\ storedUserId # status.userId

\* C14: stopping the tracking cancels only the provider subscription: the
\* deliveries in flight at the stop are left in flight, and, every POST
\* being answered eventually, each sample in flight while the tracking is
\* idle is eventually in the local log.
C14_InFlightAtStopLogged ==
    /\ [][isTracking /\ ~isTracking' => deliveries' = deliveries]_vars
    /\ \A s \in 1..MaxSamples :
           (s \in InFlight /\ ~isTracking) ~> (Occurrences(s) = 1)

\* C14 witness: the tracking was stopped, its handle cleared, while a
\* delivery is still in flight.
C14_Witness ==
    ~isTracking /\ watchId = NullWatch /\ clearLog # <<>> /\ InFlight # {}

\* C15: isTracking and the held handle are changed only by startTracking,
\* by stopTracking and by a PermissionDenied provider error: the completion
\* of a delivery (whatever its outcome), the provider's success callback
\* and the completion of an identity submission leave both unchanged.
C15_TrackingChangedOnlyByStartStop ==
    [][isTracking' # isTracking \/ watchId' # watchId =>
          StartTracking \/ StopTracking \/ ProviderError(1)]_vars

\* C15 witness: the tracking is still active on its live handle after all
\* its samples were delivered and logged and after an identity submission
\* completed.
C15_Witness ==
    /\ isTracking /\ watchId \in live
    /\ produced = MaxSamples /\ Len(locations) = MaxSamples
    /\ status.message \in {"Ready", "Offline", "AlreadyExists"}

\* C16: the debug log never holds more than 50 entries, and the calls of
\* debug made by one handler evict one oldest entry for each entry pushed
\* past 50: the entries kept stay in their order and the new entries come
\* last, in the order of the calls.
C16_DebugLogBounded ==
    /\ [](Len(debugLogs) <= 50)
    /\ [][debugClock' # debugClock =>
             LET n == debugClock' - debugClock
                 evicted == IF Len(debugLogs) + n > 50
                            THEN Len(debugLogs) + n - 50 ELSE 0
                 kept == Len(debugLogs) - evicted
             IN  /\ Len(debugLogs') = kept + n
                 /\ \A i \in 1..kept : debugLogs'[i] = debugLogs[i + evicted]
                 /\ \A j \in 1..n :
                        debugLogs'[kept + j].timestamp = debugClock + j]_vars

\* C16 witness: the log is full, its oldest entries were evicted, and the
\* two entries of a refused start are its last.
C16_Witness ==
    /\ Len(debugLogs) = 50
    /\ debugLogs[1].timestamp > 1
    /\ debugLogs[49].message = "UserIdNotSet"
    /\ debugLogs[50].message = "ModalShown"
    /\ debugLogs[50].timestamp = debugLogs[1].timestamp + 49

\* the handles clearWatch has been called with
Cleared == {clearLog[i] : i \in 1..Len(clearLog)}

\* C17: every handle a start registered is cleared exactly once, by the
\* next stop that finds the tracking active (the stop button or a
\* PermissionDenied error): no handle is cleared twice, every registered
\* handle is either still live or cleared, none stays live once the
\* tracking is idle, and each call of clearWatch is made by such a stop on
\* the live handle of the most recent start.
C17_ClearedExactlyOnce ==
    /\ [](/\ \A i, j \in 1..Len(clearLog) :
                 i # j => clearLog[i] # clearLog[j]
          /\ \A h \in 1..(nextHandle - 1) : (h \in live) # (h \in Cleared)
          /\ ~isTracking => live = {})
    /\ [][clearLog' # clearLog =>
             /\ isTracking /\ ~isTracking'
             /\ watchId = nextHandle - 1
             /\ watchId \in live /\ watchId \notin Cleared
             /\ clearLog' = Append(clearLog, watchId)]_vars

\* C17 witness: two starts registered two handles, and each was cleared
\* once, in turn.
C17_Witness ==
    clearLog = <<1, 2>> /\ live = {} /\ ~isTracking /\ nextHandle = 3

\* C18: when the remote lookup succeeds with an empty list, the submission
\* is accepted: userId becomes the candidate, current_user_id is stored
\* with the same value, the identity and initialization flags are set, and
\* sessionCount becomes the number stored under session_count_{candidate},
\* or 0 when nothing is stored there.
C18_AvailableAccepted ==
    [][\A id \in Ids :
          LookupDone(id, [kind |-> "ok", n |-> 0]) =>
              /\ userId' = id
              /\ storedUserId' = id
              /\ userIdSet' /\ isInitialized'
              /\ IF sessionStore[id] = NoItem
                 THEN sessionCount' = 0
                 ELSE sessionStore[id] = ToStr(sessionCount')]_vars

\* C18 witness: an identifier was accepted by the lookup and the session
\* counter stored under it by an earlier page load is the one in memory.
C18_Witness ==
    /\ status.message = "Ready"
    /\ userIdSet /\ isInitialized /\ userId \in Ids
    /\ storedUserId = userId
    /\ sessionStore[userId] = <<"1">> /\ sessionCount = 1
    /\ watchId = NullWatch /\ nextHandle = 1

\* C19: on a page with a location provider, the tracking is active exactly
\* when a handle is held: isTracking is true if and only if watchId is not
\* null, in every state.
C19_ActiveIffHandleHeld ==
    geoAvailable => (isTracking <=> watchId # NullWatch)

\* C19 witness: on a page with a provider the tracking is idle with no
\* handle held, a handle having been held and cleared before.
C19_Witness ==
    geoAvailable /\ ~isTracking /\ watchId = NullWatch /\ Len(clearLog) = 1

\* C20: every delivery request issued for a sample of the subscription
\* carries a user_id that is not null and is the identity held when the
\* provider's callback fired; a request in flight keeps it, whatever the
\* identity becomes before the request completes.
C20_DeliveryCarriesIdentity ==
    [][/\ \A d \in deliveries' \ deliveries :
              d.user_id # NullUser /\ d.user_id = userId
       /\ \A d \in deliveries :
              d \in deliveries' \/ d.sample \notin {e.sample : e \in deliveries'}
      ]_vars

\* C20 witness: a request in flight carries the identity of its callback
\* while another identity has been accepted since.
C20_Witness ==
    \E d \in deliveries :
        d.user_id # NullUser /\ userId # NullUser /\ d.user_id # userId

\* C21: in every state the identity flags agree: userIdSet holds exactly
\* when isInitialized holds, exactly when userId is not null; when they
\* hold, the value stored under current_user_id is userId; and none of
\* them is reset once set (userId never goes back to null).
C21_IdentityFlagsAgree ==
    /\ [](/\ userIdSet <=> isInitialized
          /\ userIdSet <=> userId # NullUser
          /\ userIdSet => storedUserId = userId)
    /\ [][/\ userIdSet => userIdSet'
          /\ isInitialized => isInitialized'
          /\ userId # NullUser => userId' # NullUser]_vars

\* C21 witness: an identity was accepted offline over the storage of an
\* earlier page load that held another identifier, and the flags, userId
\* and the stored identity agree.
C21_Witness ==
    /\ status.message = "Offline"
    /\ userIdSet /\ isInitialized /\ userId \in Ids
    /\ storedUserId = userId
    /\ \E p \in Ids : p # userId /\ sessionStore[p] # NoItem

====
